---- MODULE Spec2Model ----
(***************************************************************************)
(* A model of backup.py: a command-line backup utility that walks one or   *)
(* more source paths and writes every file found into one .zip archive in  *)
(* a destination directory.                                                *)
(*                                                                         *)
(* A path string is modelled as the sequence of its components, that is    *)
(* str.split("/") of the string: "a/s" is <<"a","s">>, "/w/a" is           *)
(* <<"","w","a">>, "./a" is <<".","a">>, "a/" is <<"a","">>.  A node of    *)
(* the file system is the sequence of names from the root: /w/a/f is       *)
(* <<"w","a","f">>.  The process's working directory is /w.                *)
(***************************************************************************)
EXTENDS Integers, Sequences, FiniteSets, TLC

VARIABLES fs, clock, entry, sources, destination, name, pc, current_time,
          zip_filepath, zip_obj, i, stack, files, written, stdout, status,
          err, log

vars == <<fs, clock, entry, sources, destination, name, pc, current_time,
          zip_filepath, zip_obj, i, stack, files, written, stdout, status,
          err, log>>

(* ------------------------------ bounds --------------------------------- *)

\* the longest list of sources given to one run
MaxSources == 2

(* --------------------------- the environment --------------------------- *)

Cwd == <<"w">>

Dir == [kind |-> "dir", size |-> 0, entries |-> <<>>, final |-> FALSE]

File(n) == [kind |-> "file", size |-> n, entries |-> <<>>, final |-> FALSE]

\* a regular file the process has no permission to read
Locked(n) == [kind |-> "locked", size |-> n, entries |-> <<>>, final |-> FALSE]

\* the tree the sources are taken from
BaseFs ==
    (<<>> :> Dir) @@ (<<"w">> :> Dir) @@
    (<<"w", "a">> :> Dir) @@ (<<"w", "a", "f">> :> File(131072)) @@
    (<<"w", "a", "s">> :> Dir) @@ (<<"w", "a", "s", "g">> :> File(700000)) @@
    (<<"w", "a", "s", "h">> :> File(12)) @@
    (<<"w", "b">> :> File(40)) @@
    (<<"w", "k">> :> Dir) @@ (<<"w", "k", "u">> :> Locked(9))

\* what is found where the destination is to be: nothing, the directories
\* out and o (o/p missing), or a regular file named o
DestLayouts ==
    { <<>> :> Dir,
      (<<"w", "out">> :> Dir) @@ (<<"w", "o">> :> Dir),
      <<"w", "o">> :> File(3) }

\* the source arguments: a directory, a nested directory with a "."
\* component, the directory by its absolute path, the directory through
\* a ".." component, a regular file, a path that does not exist, and a
\* directory holding an unreadable file
SourceArgs ==
    { <<"a">>, <<".", "a", "s">>, <<"", "w", "a">>, <<"a", "s", "..">>,
      <<"b">>, <<"nx">>, <<"k">> }

\* the source arguments of the rerun specification
RerunSourceArgs == { <<"a">>, <<"b">>, <<"k">> }

Destinations == { <<"out">>, <<"o", "p">> }

\* args.name: <<>> is None (no --name), <<x>> is --name x
NoName == <<>>

Names == { NoName, <<"X">> }

\* the wall-clock times a run can start at
Times ==
    << [d |-> 2, m |-> 11, y |-> 2026, H |-> 9, M |-> 5, S |-> 7],
       [d |-> 31, m |-> 12, y |-> 2026, H |-> 23, M |-> 59, S |-> 59] >>

SourceLists(S) == UNION { [1..n -> S] : n \in 1..MaxSources }

(* ------------------------------ paths ---------------------------------- *)

Front(s) == SubSeq(s, 1, Len(s) - 1)

Last(s) == s[Len(s)]

\* os.path.join(root, file) for a file name (never absolute)
join(root, file) ==
    IF Last(root) = "" THEN Front(root) \o <<file>> ELSE root \o <<file>>

\* the loop of posixpath.normpath over the components
RECURSIVE normcomps(_, _, _)
normcomps(comps, new_comps, initial_slashes) ==
    IF comps = <<>> THEN new_comps
    ELSE LET comp == Head(comps) IN
         IF comp \in {"", "."}
         THEN normcomps(Tail(comps), new_comps, initial_slashes)
         ELSE IF \/ comp # ".."
                 \/ (initial_slashes = 0 /\ new_comps = <<>>)
                 \/ (new_comps # <<>> /\ Last(new_comps) = "..")
         THEN normcomps(Tail(comps), Append(new_comps, comp), initial_slashes)
         ELSE IF new_comps # <<>>
         THEN normcomps(Tail(comps), Front(new_comps), initial_slashes)
         ELSE normcomps(Tail(comps), new_comps, initial_slashes)

\* a mutant of normpath: the path is returned as it is
normpath_verbatim(path) == path

\* posixpath.normpath, which ZipInfo.from_file applies to the entry name
normpath(path) ==
    IF path = <<"">> THEN <<".">>
    ELSE LET starts1 == Len(path) >= 2 /\ path[1] = ""
             starts2 == Len(path) >= 3 /\ path[1] = "" /\ path[2] = ""
             starts3 == Len(path) >= 4 /\ path[1] = "" /\ path[2] = ""
                        /\ path[3] = ""
             initial_slashes == IF starts2 /\ ~starts3 THEN 2
                                ELSE IF starts1 THEN 1 ELSE 0
             comps == normcomps(path, <<>>, initial_slashes)
             lead == [k \in 1..initial_slashes |-> ""]
         IN IF initial_slashes = 0 /\ comps = <<>> THEN <<".">>
            ELSE lead \o (IF comps = <<>> THEN <<"">> ELSE comps)

\* ZipInfo.from_file: while arcname[0] in (os.sep, os.altsep): drop it
RECURSIVE lstrip_sep(_)
lstrip_sep(arcname) ==
    IF Len(arcname) >= 2 /\ arcname[1] = ""
    THEN lstrip_sep(Tail(arcname)) ELSE arcname

\* the entry name zip_obj.write(file_path) stores: arcname defaults to the
\* file name, normalised and without leading separators
arcname(file_path) == lstrip_sep(normpath(file_path))

\* the number of bytes of a name
RECURSIVE NameLen(_)
NameLen(p) ==
    IF p = <<>> THEN 0
    ELSE Len(Head(p)) + (IF Len(p) > 1 THEN 1 ELSE 0) + NameLen(Tail(p))

(* --------------------------- the file system --------------------------- *)

Kind(f, n) == IF n \in DOMAIN f THEN f[n].kind ELSE "none"

\* the kernel's path resolution: every component is looked up in a
\* directory; "" and "." stay, ".." goes to the parent
RECURSIVE Lookup(_, _, _)
Lookup(f, cur, comps) ==
    IF comps = <<>> THEN [ok |-> Kind(f, cur) # "none", node |-> cur]
    ELSE IF Kind(f, cur) # "dir" THEN [ok |-> FALSE, node |-> cur]
    ELSE LET comp == Head(comps) IN
         IF comp \in {"", "."} THEN Lookup(f, cur, Tail(comps))
         ELSE IF comp = ".."
         THEN Lookup(f, IF cur = <<>> THEN cur ELSE Front(cur), Tail(comps))
         ELSE Lookup(f, Append(cur, comp), Tail(comps))

Resolve(f, path) ==
    IF path = <<"">> THEN [ok |-> FALSE, node |-> <<>>]
    ELSE IF Len(path) >= 2 /\ path[1] = "" THEN Lookup(f, <<>>, Tail(path))
    ELSE Lookup(f, Cwd, path)

\* os.path.exists
exists(f, path) == Resolve(f, path).ok

\* the directory a path names its last component in
ResolveParent(f, path) ==
    IF Len(path) >= 2 /\ path[1] = "" THEN Lookup(f, <<>>, Tail(Front(path)))
    ELSE Lookup(f, Cwd, Front(path))

\* os.mkdir: the parent must be a directory and the name must be free
mkdir(f, path) ==
    LET parent == ResolveParent(f, path)
        node == Append(parent.node, Last(path))
    IN IF ~parent.ok \/ Kind(f, parent.node) # "dir" \/ Kind(f, node) # "none"
       THEN [ok |-> FALSE, fs |-> f]
       ELSE [ok |-> TRUE, fs |-> (node :> Dir) @@ f]

\* a mutant of makedirs: os.mkdir, which makes no parent
makedirs_no_parents(f, path) == mkdir(f, path)

\* os.makedirs: the missing parents first, then the leaf
RECURSIVE makedirs(_, _)
makedirs(f, path) ==
    LET head == Front(path)
        made == IF head # <<>> /\ ~exists(f, head)
                THEN makedirs(f, head) ELSE [ok |-> TRUE, fs |-> f]
    IN IF made.ok THEN mkdir(made.fs, path) ELSE made

\* the children of a directory
Children(f, n) ==
    { m \in DOMAIN f : Len(m) = Len(n) + 1 /\ SubSeq(m, 1, Len(n)) = n }

\* the orders a set can be listed in
Orders(S) ==
    { q \in [1..Cardinality(S) -> S] : \A x \in S : \E k \in DOMAIN q : q[k] = x }

(* --------------------------- pure functions ---------------------------- *)

Digits == <<"0", "1", "2", "3", "4", "5", "6", "7", "8", "9">>

Pad2(n) == Digits[((n \div 10) % 10) + 1] \o Digits[(n % 10) + 1]

\* now.strftime("%d-%m-%y_%H-%M-%S")
strftime(now) ==
    Pad2(now.d) \o "-" \o Pad2(now.m) \o "-" \o Pad2(now.y % 100) \o "_"
    \o Pad2(now.H) \o "-" \o Pad2(now.M) \o "-" \o Pad2(now.S)

\* a mutant of create_zip_filepath: the name is ignored
create_zip_filepath_timestamped(time, dest, nm) ==
    Append(dest, "backup_" \o time \o ".zip")

create_zip_filepath(time, dest, nm) ==
    LET zip_name == IF nm = NoName THEN "backup_" \o time \o ".zip"
                    ELSE nm[1] \o ".zip"
    IN Append(dest, zip_name)

\* f"{size:.2f}" of size = bytes / (1024 * 1024), in hundredths of a MB:
\* the quotient is exact in binary floating point, and the formatting
\* rounds it to the nearest hundredth, ties to even
format_size(bytes) ==
    LET q == (bytes * 100) \div 1048576
        r == (bytes * 100) % 1048576
    IN IF 2 * r > 1048576 THEN q + 1
       ELSE IF 2 * r < 1048576 THEN q
       ELSE IF q % 2 = 0 THEN q ELSE q + 1

\* the bytes zip_obj.write adds to the file: a local header, the name, and
\* the data, stored uncompressed
entry_bytes(arc, size) == 30 + NameLen(arc) + size

\* the bytes zip_obj.close adds: the central directory and its end record
RECURSIVE central_bytes(_)
central_bytes(entries) ==
    IF entries = <<>> THEN 22
    ELSE 46 + NameLen(Head(entries)) + central_bytes(Tail(entries))

\* a mutant of add_entry: a name already in the archive is skipped
add_entry_dedup(file, arc, size) ==
    IF \E k \in DOMAIN file.entries : file.entries[k] = arc THEN file
    ELSE [file EXCEPT !.entries = Append(@, arc),
                      !.size = @ + entry_bytes(arc, size)]

\* zip_obj.write on the archive file: one more entry, whatever the archive
\* holds already
add_entry(file, arc, size) ==
    [file EXCEPT !.entries = Append(@, arc), !.size = @ + entry_bytes(arc, size)]

\* a mutant of open_w: mode 'a', which keeps what the file holds
open_a(f, node) ==
    IF Kind(f, node) = "file" THEN [f EXCEPT ![node].final = FALSE]
    ELSE (node :> File(0)) @@ f

\* open(file, 'w+b'): the file is created, or truncated when it exists
open_w(f, node) == (node :> File(0)) @@ f

(* ------------------------------ a run ---------------------------------- *)

NoHandle == [state |-> "none", node |-> <<>>]

Raise(e) == /\ pc' = "exit"
            /\ status' = "exit1"
            /\ err' = e

\* the state a run starts in: the arguments, and the position at the
\* entry point (main when run as a script, zipources when imported)
Start(e, srcs, dest, nm) ==
    /\ entry' = e
    /\ sources' = srcs
    /\ destination' = dest
    /\ name' = nm
    /\ pc' = IF e = "main" THEN "parse_args" ELSE "get_current_time"
    /\ current_time' = ""
    /\ zip_filepath' = <<>>
    /\ zip_obj' = NoHandle
    /\ i' = 0
    /\ stack' = <<>>
    /\ files' = <<>>
    /\ written' = <<>>
    /\ stdout' = <<>>
    /\ status' = "running"
    /\ err' = ""

InitWith(S, T) ==
    /\ fs \in { layout @@ BaseFs : layout \in DestLayouts }
    /\ clock \in T
    /\ entry \in {"main", "zipources"}
    /\ sources \in SourceLists(S)
    /\ destination \in Destinations
    /\ name \in Names
    /\ pc = IF entry = "main" THEN "parse_args" ELSE "get_current_time"
    /\ current_time = ""
    /\ zip_filepath = <<>>
    /\ zip_obj = NoHandle
    /\ i = 0
    /\ stack = <<>>
    /\ files = <<>>
    /\ written = <<>>
    /\ stdout = <<>>
    /\ status = "running"
    /\ err = ""
    /\ log = <<>>

Init == InitWith(SourceArgs, DOMAIN Times)

\* main, lines 134-139: the arguments are taken from the parsed namespace
MainParse ==
    /\ pc = "parse_args"
    /\ pc' = "check_dest"
    /\ UNCHANGED <<fs, clock, entry, sources, destination, name, current_time,
                   zip_filepath, zip_obj, i, stack, files, written, stdout,
                   status, err, log>>

\* main, line 142: if not os.path.exists(destination)
MainCheckDest ==
    /\ pc = "check_dest"
    /\ pc' = IF exists(fs, destination) THEN "call_zip_sources" ELSE "makedirs"
    /\ UNCHANGED <<fs, clock, entry, sources, destination, name, current_time,
                   zip_filepath, zip_obj, i, stack, files, written, stdout,
                   status, err, log>>

\* main, line 143: os.makedirs(destination)
MainMakedirs ==
    /\ pc = "makedirs"
    /\ LET made == makedirs(fs, destination) IN
       IF made.ok
       THEN /\ fs' = made.fs
            /\ pc' = "call_zip_sources"
            /\ UNCHANGED <<status, err>>
       ELSE /\ Raise("makedirs")
            /\ UNCHANGED fs
    /\ UNCHANGED <<clock, entry, sources, destination, name, current_time,
                   zip_filepath, zip_obj, i, stack, files, written, stdout, log>>

\* main, line 146: zip_sources is no name of the module (the function is
\* defined as zipources), so the call raises NameError
MainCall ==
    /\ pc = "call_zip_sources"
    /\ Raise("NameError")
    /\ UNCHANGED <<fs, clock, entry, sources, destination, name, current_time,
                   zip_filepath, zip_obj, i, stack, files, written, stdout, log>>

\* zipources, line 123
ZipTime ==
    /\ pc = "get_current_time"
    /\ current_time' = strftime(Times[clock])
    /\ pc' = "create_zip_filepath"
    /\ UNCHANGED <<fs, clock, entry, sources, destination, name, zip_filepath,
                   zip_obj, i, stack, files, written, stdout, status, err, log>>

\* zipources, line 125
ZipPath ==
    /\ pc = "create_zip_filepath"
    /\ zip_filepath' = create_zip_filepath(current_time, destination, name)
    /\ pc' = "zip_open"
    /\ UNCHANGED <<fs, clock, entry, sources, destination, name, current_time,
                   zip_obj, i, stack, files, written, stdout, status, err, log>>

\* create_zip_file, line 78: zipfile.ZipFile(zip_filepath, 'w')
ZipOpen ==
    /\ pc = "zip_open"
    /\ LET parent == ResolveParent(fs, zip_filepath)
           node == Append(parent.node, Last(zip_filepath))
       IN IF ~parent.ok \/ Kind(fs, parent.node) # "dir"
          THEN Raise("FileNotFoundError") /\ UNCHANGED <<fs, zip_obj>>
          ELSE IF Kind(fs, node) = "dir"
          THEN Raise("IsADirectoryError") /\ UNCHANGED <<fs, zip_obj>>
          ELSE IF Kind(fs, node) = "locked"
          THEN Raise("PermissionError") /\ UNCHANGED <<fs, zip_obj>>
          ELSE /\ fs' = open_w(fs, node)
               /\ zip_obj' = [state |-> "open", node |-> node]
               /\ pc' = "walk"
               /\ UNCHANGED <<status, err>>
    /\ UNCHANGED <<clock, entry, sources, destination, name, current_time,
                   zip_filepath, i, stack, files, written, stdout, log>>

\* create_zip_file, lines 81 and 83: the next source, and os.walk(source)
WalkStart ==
    /\ pc = "walk"
    /\ stack = <<>>
    /\ files = <<>>
    /\ i < Len(sources)
    /\ i' = i + 1
    /\ stack' = <<sources[i + 1]>>
    /\ UNCHANGED <<fs, clock, entry, sources, destination, name, pc,
                   current_time, zip_filepath, zip_obj, files, written, stdout,
                   status, err, log>>

\* create_zip_file, line 83: one step of os.walk.  The directory on top
\* is listed, in the order the system gives; what cannot be listed (a
\* regular file, a missing path) is skipped, since os.walk ignores the
\* error of scandir when no onerror is given
WalkDir ==
    /\ pc = "walk"
    /\ files = <<>>
    /\ stack # <<>>
    /\ LET root == Head(stack)
           at == Resolve(fs, root)
       IN IF ~at.ok \/ Kind(fs, at.node) # "dir"
          THEN /\ stack' = Tail(stack)
               /\ UNCHANGED files
          ELSE LET kids == Children(fs, at.node)
                   dirs == { m \in kids : Kind(fs, m) = "dir" }
                   nondirs == kids \ dirs
               IN \E dq \in Orders(dirs), fq \in Orders(nondirs) :
                    /\ files' = [k \in DOMAIN fq |-> join(root, Last(fq[k]))]
                    /\ stack' = [k \in DOMAIN dq |-> join(root, Last(dq[k]))]
                                \o Tail(stack)
    /\ UNCHANGED <<fs, clock, entry, sources, destination, name, pc,
                   current_time, zip_filepath, zip_obj, i, written, stdout,
                   status, err, log>>

\* create_zip_file, lines 85-86: zip_obj.write(file_path)
ZipWrite ==
    /\ pc = "walk"
    /\ files # <<>>
    /\ LET file_path == Head(files)
           at == Resolve(fs, file_path)
       IN IF ~at.ok
          THEN Raise("FileNotFoundError") /\ UNCHANGED <<fs, files, written>>
          ELSE IF Kind(fs, at.node) = "locked"
          THEN Raise("PermissionError") /\ UNCHANGED <<fs, files, written>>
          ELSE /\ fs' = [fs EXCEPT ![zip_obj.node] =
                            add_entry(@, arcname(file_path), fs[at.node].size)]
               /\ written' = Append(written,
                                [source |-> i, walked |-> file_path,
                                 stored |-> arcname(file_path),
                                 node |-> at.node])
               /\ files' = Tail(files)
               /\ UNCHANGED <<pc, status, err>>
    /\ UNCHANGED <<clock, entry, sources, destination, name, current_time,
                   zip_filepath, zip_obj, i, stack, stdout, log>>

\* a mutant of ZipClose: the archive is never closed
ZipCloseForgotten ==
    /\ pc = "walk"
    /\ i = Len(sources)
    /\ stack = <<>>
    /\ files = <<>>
    /\ pc' = "print_finish_message"
    /\ UNCHANGED <<fs, clock, entry, sources, destination, name, current_time,
                   zip_filepath, zip_obj, i, stack, files, written, stdout,
                   status, err, log>>

\* create_zip_file, line 89: zip_obj.close(), reached when the loops end
ZipClose ==
    /\ pc = "walk"
    /\ i = Len(sources)
    /\ stack = <<>>
    /\ files = <<>>
    /\ fs' = [fs EXCEPT ![zip_obj.node] =
                 [@ EXCEPT !.size = @ + central_bytes(fs[zip_obj.node].entries),
                           !.final = TRUE]]
    /\ zip_obj' = [zip_obj EXCEPT !.state = "closed"]
    /\ pc' = "print_finish_message"
    /\ UNCHANGED <<clock, entry, sources, destination, name, current_time,
                   zip_filepath, i, stack, files, written, stdout, status, err,
                   log>>

\* print_finish_message, lines 105-108, and the return of zipources
PrintFinish ==
    /\ pc = "print_finish_message"
    /\ LET at == Resolve(fs, zip_filepath) IN
       IF ~at.ok
       THEN Raise("FileNotFoundError") /\ UNCHANGED stdout
       ELSE /\ stdout' = Append(stdout,
                            [num_sources |-> Len(sources),
                             destination |-> destination,
                             bytes |-> fs[at.node].size,
                             size |-> format_size(fs[at.node].size)])
            /\ pc' = "exit"
            /\ status' = "exit0"
            /\ UNCHANGED err
    /\ UNCHANGED <<fs, clock, entry, sources, destination, name, current_time,
                   zip_filepath, zip_obj, i, stack, files, written, log>>

Run == \/ MainParse \/ MainCheckDest \/ MainMakedirs \/ MainCall
       \/ ZipTime \/ ZipPath \/ ZipOpen \/ WalkStart \/ WalkDir \/ ZipWrite
       \/ ZipClose \/ PrintFinish

Next == Run

Spec == Init /\ [][Next]_vars

(* -------------------------- successive runs ---------------------------- *)

\* the second of two successive invocations: the file system is what the
\* first run left, the clock has not gone back.  log keeps what the first
\* run did
NewRun ==
    /\ pc = "exit"
    /\ log = <<>>
    /\ log' = Append(log, [destination |-> destination, name |-> name,
                           zip_filepath |-> zip_filepath, status |-> status,
                           stored |-> [k \in DOMAIN written |-> written[k].stored]])
    /\ clock' \in {clock, clock + 1}
    /\ \E e \in {"main", "zipources"}, srcs \in SourceLists(RerunSourceArgs),
          dest \in Destinations, nm \in Names :
          Start(e, srcs, dest, nm)
    /\ UNCHANGED fs

InitRerun == InitWith(RerunSourceArgs, {1})

NextRerun == Run \/ NewRun

SpecRerun == InitRerun /\ [][NextRerun]_vars

(* ------------------------------ claims --------------------------------- *)

IsDirectory(f, path) ==
    LET at == Resolve(f, path) IN at.ok /\ Kind(f, at.node) = "dir"

IsRegularFile(f, path) ==
    LET at == Resolve(f, path) IN at.ok /\ Kind(f, at.node) \in {"file", "locked"}

\* the regular files beneath the directory a source names
Beneath(f, path) ==
    IF ~IsDirectory(f, path) THEN {}
    ELSE LET top == Resolve(f, path).node IN
         { m \in DOMAIN f : /\ Kind(f, m) \in {"file", "locked"}
                            /\ Len(m) > Len(top)
                            /\ SubSeq(m, 1, Len(top)) = top }

\* the regular files reachable under a source: the file itself, or the
\* files beneath the directory
Reachable(f, path) ==
    IF IsRegularFile(f, path) THEN {Resolve(f, path).node} ELSE Beneath(f, path)

AllSourcesExist == \A k \in DOMAIN sources : exists(fs, sources[k])

\* the walk of source k is over
Walked(k) == k < i \/ (k = i /\ stack = <<>> /\ files = <<>>)

\* the entries of the archive the run has opened
Archive == fs[zip_obj.node].entries

\* C1: every run of main() with existing sources and a destination directory
\* ends with one finalized archive at <destination>/<file name> that holds an
\* entry for every regular file reachable under every source.
C1_MainLeavesCompleteArchive ==
    (entry = "main" /\ pc = "exit" /\ AllSourcesExist
     /\ IsDirectory(fs, destination))
    => LET target == create_zip_filepath(strftime(Times[clock]), destination, name)
           at == Resolve(fs, target)
       IN /\ at.ok
          /\ fs[at.node].kind = "file"
          /\ fs[at.node].final
          /\ \A k \in DOMAIN sources : \A n \in Reachable(fs, sources[k]) :
                \E j \in DOMAIN written : written[j].node = n

\* C2: a run of main() whose sources all exist and whose destination is a
\* directory ends with exit status 0 after printing the summary line once,
\* never with an unhandled failure.
C2_MainExitsZero ==
    (entry = "main" /\ pc = "exit" /\ AllSourcesExist
     /\ IsDirectory(fs, destination))
    => (status = "exit0" /\ Len(stdout) = 1)

\* C3: once the walk of a source that does not exist is over, the run has
\* been aborted by an error at that source: no later source is taken, no
\* summary line is printed and the exit status is non-zero.
C3_MissingSourceAborts ==
    \A k \in DOMAIN sources :
        (zip_obj.state # "none" /\ Walked(k) /\ ~exists(fs, sources[k]))
        => (pc = "exit" /\ status = "exit1" /\ i = k /\ stdout = <<>>)

\* C4: when the archive is closed, a source that is a regular file has
\* given exactly one entry, that file.
C4_FileSourceIsOneEntry ==
    zip_obj.state = "closed"
    => \A k \in DOMAIN sources :
          IsRegularFile(fs, sources[k])
          => /\ Cardinality({ j \in DOMAIN written : written[j].source = k }) = 1
             /\ \E j \in DOMAIN written :
                   /\ written[j].source = k
                   /\ written[j].node = Resolve(fs, sources[k]).node

\* C5: whenever create_zip_file has been left after opening the archive, by
\* returning or by a failure of the walk or of a write, the handle is closed.
C5_HandleClosedOnEveryExit ==
    (zip_obj.state # "none" /\ pc # "walk") => zip_obj.state = "closed"

\* C6: the summary step runs only after the loops over the sources are over
\* and the archive is closed, and the size it prints is the size of the
\* finalized archive on disk, which holds every entry written.
C6_SizeReadAfterClose ==
    (pc = "print_finish_message" \/ stdout # <<>>)
    => /\ zip_obj.state = "closed"
       /\ i = Len(sources) /\ stack = <<>> /\ files = <<>>
       /\ fs[zip_obj.node].final
       /\ Archive = [k \in DOMAIN written |-> written[k].stored]
       /\ stdout # <<>>
          => /\ Len(stdout) = 1
             /\ Resolve(fs, zip_filepath).node = zip_obj.node
             /\ stdout[1].bytes = fs[zip_obj.node].size
             /\ stdout[1].size = format_size(fs[zip_obj.node].size)
             /\ stdout[1].num_sources = Len(sources)

\* a summary line has been printed for an archive of several entries whose
\* size does not round to 0.00 MB
C6_Witness ==
    /\ stdout # <<>>
    /\ zip_obj.state = "closed"
    /\ Len(written) >= 3
    /\ stdout[1].size > 0

\* some directory on the way to the destination is no directory
Obstructed(f, path) ==
    \E k \in 1..(Len(path) - 1) :
        LET at == Resolve(f, SubSeq(path, 1, k)) IN
        at.ok /\ Kind(f, at.node) # "dir"

SameTarget ==
    /\ log # <<>>
    /\ name # NoName
    /\ log[1].name = name
    /\ log[1].destination = destination

\* C8: given an explicit name X, a second run into the same destination
\* targets the same path <destination>/X.zip as the first; where the first
\* run completed, opening the archive does not fail, and when the second run
\* completes the archive holds exactly the entries the second run wrote.
C8_SecondRunOverwrites ==
    SameTarget
    => /\ (zip_filepath # <<>> /\ log[1].zip_filepath # <<>>)
          => /\ zip_filepath = log[1].zip_filepath
             /\ zip_filepath = Append(destination, name[1] \o ".zip")
       /\ (log[1].status = "exit0" /\ zip_filepath # <<>> /\ pc # "zip_open")
          => zip_obj.state # "none"
       /\ status = "exit0"
          => /\ fs[Resolve(fs, zip_filepath).node].final
             /\ fs[Resolve(fs, zip_filepath).node].entries
                  = [k \in DOMAIN written |-> written[k].stored]

\* both runs completed on the same path; the first wrote entries, the second
\* wrote none, and none is left
C8_Witness ==
    /\ SameTarget
    /\ log[1].status = "exit0"
    /\ Len(log[1].stored) >= 3
    /\ status = "exit0"
    /\ written = <<>>
    /\ fs[Resolve(fs, zip_filepath).node].entries = <<>>

\* C9 as stated: every entry name is the path string the walk produced,
\* with no normalization.
C9_EntryNameVerbatim ==
    zip_obj.state # "none"
    => \A k \in DOMAIN written : Archive[k] = written[k].walked

IsAbsolute(path) == Len(path) >= 2 /\ path[1] = ""

\* a name followed by ".." cancels with it, the leftmost pair first
RECURSIVE Collapse(_)
Collapse(p) ==
    IF \E k \in 1..(Len(p) - 1) : p[k] # ".." /\ p[k + 1] = ".."
    THEN LET k == CHOOSE k \in 1..(Len(p) - 1) :
                     /\ p[k] # ".." /\ p[k + 1] = ".."
                     /\ \A j \in 1..(k - 1) : ~(p[j] # ".." /\ p[j + 1] = "..")
         IN Collapse(SubSeq(p, 1, k - 1) \o SubSeq(p, k + 2, Len(p)))
    ELSE p

RECURSIVE DropDotDot(_)
DropDotDot(p) == IF p # <<>> /\ Head(p) = ".." THEN DropDotDot(Tail(p)) ELSE p

IsName(c) == c \notin {"", "."}

\* the walked path without empty and "." components, with every "name/.."
\* pair removed and, for an absolute path, without what led from the root
ExpectedName(walked) ==
    LET c == Collapse(SelectSeq(walked, IsName)) IN
    IF IsAbsolute(walked) THEN DropDotDot(c) ELSE c

\* C9, amended: every entry name is the walked path string normalised: the
\* directory components of the source argument are kept, the leading
\* separator of an absolute source, "." components and "name/.." pairs are
\* not.
C9_EntryNameNormalised ==
    zip_obj.state # "none"
    => /\ Len(Archive) = Len(written)
       /\ \A k \in DOMAIN written :
             /\ Archive[k] = ExpectedName(written[k].walked)
             /\ Archive[k][1] # ""
             /\ \A c \in DOMAIN Archive[k] : Archive[k][c] \notin {"", ".", ".."}

\* the archive holds a/f for the walked path a/s/../f, and w/a/f for the
\* walked path /w/a/f
C9_Witness ==
    /\ zip_obj.state = "closed"
    /\ \E k \in DOMAIN written :
          /\ written[k].walked = <<"a", "s", "..", "f">>
          /\ Archive[k] = <<"a", "f">>
    /\ \E k \in DOMAIN written :
          /\ written[k].walked = <<"", "w", "a", "f">>
          /\ Archive[k] = <<"w", "a", "f">>

RECURSIVE SumBeneath(_)
SumBeneath(k) ==
    IF k = 0 THEN 0
    ELSE Cardinality(Beneath(fs, sources[k])) + SumBeneath(k - 1)

NestedText(p, q) == Len(q) >= Len(p) /\ SubSeq(q, 1, Len(p)) = p

====
